---- MODULE Spec2Model ----
(***************************************************************************)
(* Intensity-based histogram registration (nipy.neurospin.registration.    *)
(* histogram_registration): clamping, sub-sampling, evaluation, grid       *)
(* exploration and the optimisation driver, as state machines.             *)
(*                                                                         *)
(* Arrays are modelled by value.  A volume is a record [shape, flat] with  *)
(* flat the C-order (row-major) flattening of its voxels.  The input of    *)
(* clamp is a volume of shape (1, 1, N), written as the sequence of its N  *)
(* voxels.  Raw intensities are exact numbers; an array of a non-integer   *)
(* dtype holds the same numbers, read in an arbitrary unit (the            *)
(* compression branch of _clamp only uses ratios of differences).          *)
(***************************************************************************)
EXTENDS Integers, Sequences, FiniteSets, TLC

VARIABLES
    clamp_in, clamp_out,       \* one call of clamp: its arguments, its outcome
    \* one call of ideal_spacing(data, npoints)
    sp_data, sp_npoints,       \* its arguments
    div_mode,                  \* what dims/spacing computes on this platform
    sp_pc,                     \* "start", "loop" (at the while test), "done"
    spacing, actual_npoints,   \* its locals
    sp_prev, sp_dir, sp_iter,  \* history: spacing before the last increment,
                               \* the axis it incremented, iterations so far
    \* one HistogramRegistration object
    _from_img,                 \* clamped `from` image (its data)
    _from_data, _from_npoints, _from_affine, _vox_coords,
    _to_data,                  \* clamped, padded `to` image
    _joint_hist,               \* the buffer: row i + 1 holds the masses of
                               \* the bins <<i, 0>>, <<i, 1>>, ...
    _interp, _similarity, _similarity_func,
    rng,                       \* state of the np.random generator
    last_call, ret,            \* the eval or explore call just made, if the
                               \* last call was one: its arguments, and what
                               \* it returned and left in the transform
                               \* object it was given
    \* optimize(T, method), run twice from the same state: run a with
    \* callback=None (the default callback is installed), run b with a
    \* callback that does nothing
    opt_pc, opt_method, opt_n, \* position, method, cost evaluations so far
    opt_tc,                    \* the point the minimizer last asked the cost of
    a_param, b_param,          \* T.param in each run
    a_cost, b_cost,            \* the cost last returned to the minimizer
    a_best, b_best,            \* the minimizer's best point so far
    b_joint_hist, b_rng        \* run b's histogram buffer and generator
                               \* (run a uses _joint_hist and rng)

clampVars == <<clamp_in, clamp_out>>
spVars == <<sp_data, sp_npoints, div_mode, sp_pc, spacing, actual_npoints,
            sp_prev, sp_dir, sp_iter>>
sessVars == <<_from_img, _from_data, _from_npoints, _from_affine, _vox_coords,
              _to_data, _joint_hist, _interp, _similarity, _similarity_func,
              rng, last_call, ret>>
optVars == <<opt_pc, opt_method, opt_n, opt_tc, a_param, b_param, a_cost, b_cost,
             a_best, b_best, b_joint_hist, b_rng>>
vars == <<clampVars, spVars, sessVars, optVars>>

-----------------------------------------------------------------------------
(* Bounds of the model *)
MaxLen == 3          \* voxels of a clamp input
RawMax == 3          \* largest raw intensity
MaxDim == 3          \* largest extent of a volume given to ideal_spacing
MaxTarget == 3       \* largest npoints given to ideal_spacing
MaxSpacing == 5      \* the model stops incrementing a stride here

RngPeriod == 2       \* states of the random generator
MaxQueries == 3      \* cost evaluations of one run of a minimizer

(* Program constants *)
ShortMax == 32767    \* np.iinfo(np.short).max, _CLAMP_DTYPE = 'short'
_BINS == 256
_NPOINTS == 262144   \* 64**3

-----------------------------------------------------------------------------
(* Helpers on sequences *)
RECURSIVE SeqMin(_)
SeqMin(s) ==
    IF Len(s) = 1 THEN s[1]
    ELSE LET m == SeqMin(Tail(s)) IN IF s[1] < m THEN s[1] ELSE m

RECURSIVE SeqMax(_)
SeqMax(s) ==
    IF Len(s) = 1 THEN s[1]
    ELSE LET m == SeqMax(Tail(s)) IN IF s[1] > m THEN s[1] ELSE m

\* x[mask] for a boolean mask: the selected items, in order
RECURSIVE Select(_, _)
Select(x, mask) ==
    IF x = <<>> THEN <<>>
    ELSE (IF mask[1] THEN <<x[1]>> ELSE <<>>) \o Select(Tail(x), Tail(mask))

\* y[mask] = ym for a boolean mask: the items of ym go to the selected places
RECURSIVE Scatter(_, _, _)
Scatter(y, mask, ym) ==
    IF y = <<>> THEN <<>>
    ELSE IF mask[1] THEN <<ym[1]>> \o Scatter(Tail(y), Tail(mask), Tail(ym))
         ELSE <<y[1]>> \o Scatter(Tail(y), Tail(mask), ym)

\* np.round of the rational p/q (p >= 0, q > 0): half to even
RoundHalfEven(p, q) ==
    LET f == p \div q
        r == p % q
    IN  IF 2 * r < q THEN f
        ELSE IF 2 * r > q THEN f + 1
        ELSE IF f % 2 = 0 THEN f ELSE f + 1

-----------------------------------------------------------------------------
(* _clamp and clamp *)

Raised(err) == [status |-> err, y |-> <<>>, bins |-> 0]

\* y[:] = vals, y of m items: numpy broadcasts a single value, else the
\* lengths must agree
AssignAll(m, vals) ==
    IF Len(vals) = m THEN [status |-> "ok", y |-> vals]
    ELSE IF Len(vals) = 1 THEN [status |-> "ok", y |-> [i \in 1..m |-> vals[1]]]
    ELSE [status |-> "ValueError", y |-> <<>>]

\* _clamp(x, y, bins): x the array whose values are binned, isint whether its
\* dtype is an integer one, ylen the number of items of the output buffer y
_clamp(x, isint, ylen, bins) ==
    LET dmaxmax == ShortMax
        dmax == bins - 1
        xmin == SeqMin(x)
        xmax == SeqMax(x)
        d == xmax - xmin
    IN  IF dmax > dmaxmax THEN Raised("ValueError")
        ELSE IF isint /\ d <= dmax THEN
             LET a == AssignAll(ylen, [i \in 1..Len(x) |-> x[i] - xmin])
             IN  IF a.status = "ok"
                 THEN [status |-> "ok", y |-> a.y, bins |-> d + 1]
                 ELSE Raised(a.status)
        ELSE IF d = 0 THEN Raised("ZeroDivisionError")      \* a = dmax/d
        ELSE LET a == AssignAll(ylen,
                        [i \in 1..Len(x) |-> RoundHalfEven(dmax * (x[i] - xmin), d)])
             IN  IF a.status = "ok"
                 THEN [status |-> "ok", y |-> a.y, bins |-> bins]
                 ELSE Raised(a.status)

\* mask = None, or a boolean array of the shape of x
NoMask == [given |-> FALSE, sel |-> <<>>]
BoolMask(sel) == [given |-> TRUE, sel |-> sel]

\* clamp(x, bins, mask)
clamp(x, isint, bins, mask) ==
    IF bins > ShortMax THEN Raised("ValueError")
    ELSE LET y == [i \in 1..Len(x) |-> -1]
         IN  IF mask = NoMask THEN _clamp(x, isint, Len(y), bins)
             ELSE LET xm == Select(x, mask.sel)
                      ym == Select(y, mask.sel)
                      r == _clamp(x, isint, Len(ym), bins)
                  IN  IF r.status = "ok"
                      THEN [status |-> "ok", y |-> Scatter(y, mask.sel, r.y),
                            bins |-> r.bins]
                      ELSE r

-----------------------------------------------------------------------------
(* Volumes: [shape |-> <<n0, n1, n2>>, flat |-> the voxels in C order] *)

Size(shape) == shape[1] * shape[2] * shape[3]

\* the voxel at the zero-based index <<i, j, k>>
At(v, idx) == v.flat[(idx[1] * v.shape[2] + idx[2]) * v.shape[3] + idx[3] + 1]

\* the zero-based index of the t-th voxel (t = 0, 1, ...) of a C-ordered array
Unravel(shape, t) ==
    <<t \div (shape[2] * shape[3]), (t \div shape[3]) % shape[2], t % shape[3]>>

Max2(a, b) == IF a > b THEN a ELSE b
Min2(a, b) == IF a < b THEN a ELSE b

\* len(range(*slice(start, stop, step).indices(n))), 0 <= start, 1 <= step
SliceLen(n, start, stop, step) ==
    LET lo == Min2(start, n)
        hi == Min2(stop, n)
    IN  IF hi <= lo THEN 0 ELSE (hi - lo + step - 1) \div step

\* v[c0:c0+z0:s0, c1:c1+z1:s1, c2:c2+z2:s2]
Slice(v, corner, size, step) ==
    LET shape == [a \in 1..3 |->
                    SliceLen(v.shape[a], corner[a], corner[a] + size[a], step[a])]
    IN  [shape |-> shape,
         flat  |-> [t \in 1..Size(shape) |->
                      LET idx == Unravel(shape, t - 1)
                      IN  At(v, [a \in 1..3 |-> corner[a] + step[a] * idx[a]])]]

\* (v >= 0).sum()
CountNonNeg(v) == Cardinality({t \in 1..Len(v.flat) : v.flat[t] >= 0})

-----------------------------------------------------------------------------
(* ideal_spacing *)

\* ddims[i] >= ddims[j] and ddims[i] > ddims[j] for ddims = dims/spacing.
\* dims is a tuple of Python ints and spacing an array of dtype 'uint': where
\* 'uint' is 64 bits wide numpy divides int64 by uint64 as float64 ("true"),
\* where it is 32 bits wide it divides as int64, rounding down ("floor").
DivModes == {"true", "floor"}

DdimsGE(div, dims, sp, i, j) ==
    IF div = "true" THEN dims[i] * sp[j] >= dims[j] * sp[i]
    ELSE dims[i] \div sp[i] >= dims[j] \div sp[j]

DdimsGT(div, dims, sp, i, j) == ~DdimsGE(div, dims, sp, j, i)

\* the axis chosen by lines 410-416 (axes are 1, 2, 3 here, 0, 1, 2 there)
ChooseDir(div, dims, sp) ==
    IF DdimsGE(div, dims, sp, 1, 2) /\ DdimsGE(div, dims, sp, 1, 3) THEN 1
    ELSE IF DdimsGT(div, dims, sp, 2, 1) /\ DdimsGE(div, dims, sp, 2, 3) THEN 2
    ELSE 3

\* data[::spacing[0], ::spacing[1], ::spacing[2]]
Strided(data, sp) == Slice(data, <<0, 0, 0>>, data.shape, sp)

Ones == <<1, 1, 1>>

\* the whole call, for the callers of ideal_spacing (npoints >= 1: see C4)
RECURSIVE SpacingLoop(_, _, _, _)
SpacingLoop(div, data, npoints, sp) ==
    IF CountNonNeg(Strided(data, sp)) > npoints
    THEN LET dir == ChooseDir(div, data.shape, sp)
         IN  SpacingLoop(div, data, npoints, [sp EXCEPT ![dir] = @ + 1])
    ELSE sp

ideal_spacing(div, data, npoints) == SpacingLoop(div, data, npoints, Ones)

-----------------------------------------------------------------------------
(* HistogramRegistration: sub-sampling *)

\* an optional argument left at None
None == <<>>

\* np.indices(shape): for each axis, the array of that axis's index
Indices(shape) ==
    [a \in 1..3 |->
        [shape |-> shape,
         flat  |-> [t \in 1..Size(shape) |-> Unravel(shape, t - 1)[a]]]]

\* .transpose((1,2,3,0)): the axis over the three arrays becomes the last one
TransposeLast(ind, shape) ==
    [shape |-> shape,
     flat  |-> [t \in 1..Size(shape) |->
                  <<ind[1].flat[t], ind[2].flat[t], ind[3].flat[t]>>]]

\* line 144
VoxCoords(shape) == TransposeLast(Indices(shape), shape)

\* subgrid_affine(affine, slices) for an image whose affine is the identity:
\* sub-volume voxel v is image voxel (and world point) corner + step * v
subgrid_affine(corner, step) == [corner |-> corner, step |-> step]

\* subsample with the coordinates computed before the spacing is adjusted
subsample_stale(img, div, spacing_arg, corner, size_arg, npoints_arg) ==
    LET spacing0 == IF spacing_arg = None THEN Ones ELSE spacing_arg
        npoints == IF spacing_arg = None THEN npoints_arg ELSE 0
        size == IF size_arg = None THEN img.shape ELSE size_arg
        fov0 == Slice(img, corner, size, spacing0)
        spacing1 == IF npoints # 0 THEN ideal_spacing(div, fov0, npoints)
                    ELSE spacing0
        fov_data == Slice(img, corner, size, spacing1)
    IN  [_from_data    |-> fov_data,
         _from_npoints |-> CountNonNeg(fov_data),
         _from_affine  |-> subgrid_affine(corner, spacing1),
         _vox_coords   |-> VoxCoords(fov0.shape)]

\* subsample(spacing, corner, size, npoints) on the image img: the four
\* attributes it sets.  npoints is >= 0 here: a negative target never returns
\* from ideal_spacing (see C4).
subsample(img, div, spacing_arg, corner, size_arg, npoints_arg) ==
    LET spacing0 == IF spacing_arg = None THEN Ones ELSE spacing_arg
        npoints == IF spacing_arg = None THEN npoints_arg ELSE 0
        size == IF size_arg = None THEN img.shape ELSE size_arg
        fov0 == Slice(img, corner, size, spacing0)
        spacing1 == IF npoints # 0 THEN ideal_spacing(div, fov0, npoints)
                    ELSE spacing0
        fov_data == Slice(img, corner, size, spacing1)
    IN  [_from_data    |-> fov_data,
         _from_npoints |-> CountNonNeg(fov_data),
         _from_affine  |-> subgrid_affine(corner, spacing1),
         _vox_coords   |-> VoxCoords(fov_data.shape)]

-----------------------------------------------------------------------------
(* The joint histogram and the similarity measure.  A mass is counted in     *)
(* eighths of a voxel, a coordinate in half voxels: transforms are           *)
(* translations by a whole number of half voxels along the first axes.       *)

\* An array given by its items, computed once
AsArray(f) == SubSeq(f, 1, Len(f))

\* Tv.apply(v) = post(T(pre(v))): pre is _from_affine, T translates axis a by
\* param[a] half voxels, post is the inverse of the identity affine of `to`
ChainApply(param, affine, v) ==
    AsArray([a \in 1..3 |-> 2 * (affine.corner[a] + affine.step[a] * v[a])
                            + (IF a <= Len(param) THEN param[a] ELSE 0)])

\* -np.ones(shape + 2) with the data at [1:-1, 1:-1, 1:-1]
Pad(v) ==
    LET shape == [a \in 1..3 |-> v.shape[a] + 2]
    IN  [shape |-> shape,
         flat  |-> [t \in 1..Size(shape) |->
                      LET idx == Unravel(shape, t - 1)
                      IN  IF \A a \in 1..3 : 1 <= idx[a] /\ idx[a] <= v.shape[a]
                          THEN At(v, [a \in 1..3 |-> idx[a] - 1])
                          ELSE -1]]

\* np.zeros([from_bins, to_bins]): bin <<i, j>> is H[i + 1][j + 1]
ZeroHist(from_bins, to_bins) ==
    AsArray([i \in 1..from_bins |-> AsArray([j \in 1..to_bins |-> 0])])

NbCorners == << <<0,0,0>>, <<0,0,1>>, <<0,1,0>>, <<0,1,1>>,
                <<1,0,0>>, <<1,0,1>>, <<1,1,0>>, <<1,1,1>> >>

\* the trilinear weight (in eighths) of the neighbour at corner n of the cell
\* holding the point c
Weight(c, n) ==
    LET w(a) == IF n[a] = 0 THEN 2 - (c[a] % 2) ELSE c[a] % 2
    IN  w(1) * w(2) * w(3)

\* the bin of a voxel of the padded volume, -1 outside it
ToBin(to, idx) ==
    IF \A a \in 1..3 : 0 <= idx[a] /\ idx[a] < to.shape[a] THEN At(to, idx)
    ELSE -1

\* the neighbours of positive weight of the point c of the padded volume:
\* for each its `to` bin and its weight
Neighbours(to, c) ==
    LET all == [k \in 1..8 |->
                  [bin |-> ToBin(to, [a \in 1..3 |-> (c[a] \div 2) + NbCorners[k][a]]),
                   w   |-> Weight(c, NbCorners[k])]]
        Positive(n) == n.w > 0
    IN  SelectSeq(all, Positive)

\* what source voxel number t, sent to the point c, adds to the histogram:
\* partial volume and trilinear (interp >= 0) spread the voxel over its
\* neighbours; random interpolation (interp < 0, the seed) gives all of it to
\* one neighbour
VoxelMass(to, c, interp, t) ==
    LET nbs == Neighbours(to, c)
    IN  IF interp >= 0 THEN nbs
        ELSE <<[bin |-> nbs[((t - interp) % Len(nbs)) + 1].bin, w |-> 8]>>

RECURSIVE MassOf(_, _)
MassOf(nbs, bt) ==
    IF nbs = <<>> THEN 0
    ELSE (IF nbs[1].bin = bt THEN nbs[1].w ELSE 0) + MassOf(Tail(nbs), bt)

RECURSIVE SumTo(_, _)
SumTo(f, n) == IF n = 0 THEN 0 ELSE f[n] + SumTo(f, n - 1)

RECURSIVE ProdTo(_, _)
ProdTo(f, n) == IF n = 0 THEN 1 ELSE f[n] * ProdTo(f, n - 1)

\* _joint_histogram(H, from_data.flat, to_data, coords, interp): H is reset,
\* then every source voxel that is not masked (-1) adds, to the bin of each
\* neighbour that is neither masked nor padding, what that neighbour takes;
\* coords are offset by the padding
_joint_histogram(H, from_flat, to, coords, interp) ==
    LET mass == AsArray([t \in 1..Len(from_flat) |->
                    IF from_flat[t] < 0 THEN <<>>
                    ELSE VoxelMass(to, [a \in 1..3 |-> coords[t][a] + 2], interp, t)])
    IN  AsArray([i \in 1..Len(H) |->
            AsArray([j \in 1..Len(H[i]) |->
                SumTo([t \in 1..Len(from_flat) |->
                          IF from_flat[t] = i - 1 THEN MassOf(mass[t], j - 1) ELSE 0],
                      Len(from_flat))])])

RECURSIVE GCD(_, _)
GCD(a, b) == IF b = 0 THEN a ELSE GCD(b, a % b)

\* the rational a/b, b > 0, in lowest terms
Frac(a, b) ==
    LET g == GCD(IF a < 0 THEN -a ELSE a, b)
    IN  <<a \div g, b \div g>>

\* The correlation ratio of the joint histogram H: the share of the variance
\* of the `to` bin that the `from` bin explains, 0 when there is no variance
CorrelationRatio(H) ==
    LET fb == Len(H)
        n == AsArray([i \in 1..fb |-> SumTo(H[i], Len(H[i]))])
        m == AsArray([i \in 1..fb |->
                SumTo([j \in 1..Len(H[i]) |-> (j - 1) * H[i][j]], Len(H[i]))])
        q == AsArray([i \in 1..fb |->
                SumTo([j \in 1..Len(H[i]) |-> (j - 1) * (j - 1) * H[i][j]], Len(H[i]))])
        N == SumTo(n, fb)
        M == SumTo(m, fb)
        Q == SumTo(q, fb)
        total == Q * N - M * M
        P == ProdTo([i \in 1..fb |-> IF n[i] > 0 THEN n[i] ELSE 1], fb)
        within == SumTo([i \in 1..fb |->
                          IF n[i] > 0 THEN (q[i] * n[i] - m[i] * m[i]) * (P \div n[i])
                          ELSE 0], fb)
    IN  IF total = 0 THEN <<0, 1>>
        ELSE Frac(P * total - within * N, P * total)

\* self.new_similarity = CorrelationRatio(self._joint_hist), line 101
new_similarity(H) == CorrelationRatio(H)

\* The functions a caller may supply as similarity, applied to H: the total
\* mass of H
CustomFunctions == {"mass"}
ApplyFunction(f, H) ==
    CASE f = "mass" ->
        <<SumTo([i \in 1..Len(H) |-> SumTo(H[i], Len(H[i]))], Len(H)), 1>>

\* np.random.randint(maxint): the value drawn and the generator's next state
randint(state) == [value |-> state, state |-> (state + 1) % RngPeriod]

\* _eval(Tv), Tv of parameters param: the histogram buffer, the generator and
\* the value returned
_eval(H, from_data, to_data, vox_coords, affine, interp0, rng0, param) ==
    LET trans_voxel_coords ==
            AsArray([t \in 1..Len(vox_coords.flat) |->
                        ChainApply(param, affine, vox_coords.flat[t])])
        draw == randint(rng0)
        interp == IF interp0 < 0 THEN -draw.value ELSE interp0
        Result(H2) == [hist |-> H2,
                       rng |-> IF interp0 < 0 THEN draw.state ELSE rng0,
                       score |-> new_similarity(H2)]
    IN  \* H2 is the buffer after the call of lines 200-204
        CHOOSE r \in {Result(H2) : H2 \in {_joint_histogram(H, from_data.flat,
                            to_data, trans_voxel_coords, interp)}} : TRUE

-----------------------------------------------------------------------------
(* explore *)

\* deltas starting from [1] on every axis
UnitDeltas(nparams) == [i \in 1..nparams |-> <<1>>]

\* line 297
DefaultDeltas(nparams) == [i \in 1..nparams |-> <<0>>]

\* lines 298-299 (axes are 1..nparams here, 0..nparams-1 there)
RECURSIVE SetDeltas(_, _)
SetDeltas(deltas, args) ==
    IF args = <<>> THEN deltas
    ELSE SetDeltas([deltas EXCEPT ![args[1][1]] = args[1][2]], Tail(args))

RECURSIVE NTrials(_)
NTrials(deltas) ==
    IF deltas = <<>> THEN 1 ELSE Len(deltas[1]) * NTrials(Tail(deltas))

\* grids[k].ravel()[i] for grids = np.mgrid[[slice(0, len(d)) for d in deltas]]
GridIndex(deltas, k, i) ==
    (i \div NTrials(SubSeq(deltas, k + 1, Len(deltas)))) % Len(deltas[k])

\* [D[i] for D in Deltas], line 302 and 309
TrialDeltas(deltas, i) ==
    [k \in 1..Len(deltas) |-> deltas[k][GridIndex(deltas, k, i) + 1]]

\* lines 308-312, trials i, i+1, ...: st holds the histogram buffer, the
\* generator, the parameters of T0, and the two arrays filled so far
RECURSIVE ExploreLoop(_, _, _, _, _, _, _, _, _)
ExploreLoop(st, from_data, to_data, vox_coords, affine, interp, param0, deltas, i) ==
    IF i >= NTrials(deltas) THEN st
    ELSE LET d == TrialDeltas(deltas, i)
             param == AsArray([k \in 1..Len(param0) |-> param0[k] + d[k]])
             Rest(e) ==
                 ExploreLoop([hist |-> e.hist, rng |-> e.rng, T_param |-> param,
                              simis |-> Append(st.simis, e.score),
                              params |-> Append(st.params, param)],
                             from_data, to_data, vox_coords, affine, interp,
                             param0, deltas, i + 1)
         IN  \* e is what the call of line 311 leaves and returns
             CHOOSE r \in {Rest(e) : e \in {_eval(st.hist, from_data, to_data,
                                vox_coords, affine, interp, st.rng, param)}} : TRUE

\* explore(T0, *args), T0 of parameters T0_param
explore(H, from_data, to_data, vox_coords, affine, interp, rng0, T0_param, args) ==
    LET nparams == Len(T0_param)
        deltas == SetDeltas(DefaultDeltas(nparams), args)
        param0 == T0_param
    IN  ExploreLoop([hist |-> H, rng |-> rng0, T_param |-> T0_param,
                     simis |-> <<>>, params |-> <<>>],
                    from_data, to_data, vox_coords, affine, interp,
                    param0, deltas, 0)

-----------------------------------------------------------------------------
(* Each specification below runs one part of the module; the variables of   *)
(* the other parts keep these values.                                        *)

NoCall == [status |-> "pending", y |-> <<>>, bins |-> 0]

ClampIdle ==
    /\ clamp_in = [x |-> <<0>>, isint |-> TRUE, bins |-> 1, mask |-> NoMask]
    /\ clamp_out = NoCall

SpacingIdle ==
    /\ sp_data = [shape |-> Ones, flat |-> <<-1>>]
    /\ sp_npoints = 0
    /\ sp_pc = "idle"
    /\ spacing = Ones
    /\ actual_npoints = 0
    /\ sp_prev = Ones
    /\ sp_dir = 0
    /\ sp_iter = 0

NoVolume == [shape |-> <<0, 0, 0>>, flat |-> <<>>]

SessionIdle ==
    /\ _from_img = NoVolume
    /\ _from_data = NoVolume
    /\ _from_npoints = 0
    /\ _from_affine = subgrid_affine(<<0, 0, 0>>, Ones)
    /\ _vox_coords = NoVolume
    /\ _to_data = NoVolume
    /\ _joint_hist = ZeroHist(1, 1)
    /\ _interp = 0
    /\ _similarity = "cr"
    /\ _similarity_func = "None"
    /\ rng = 0
    /\ last_call = [op |-> "none"]
    /\ ret = [value |-> "None"]

OptimizeIdle ==
    /\ opt_pc = "idle"
    /\ opt_method = "powell"
    /\ opt_n = 0
    /\ opt_tc = <<>>
    /\ a_param = <<>>
    /\ b_param = <<>>
    /\ a_cost = <<0, 1>>
    /\ b_cost = <<0, 1>>
    /\ a_best = [param |-> <<>>, cost |-> <<0, 1>>]
    /\ b_best = [param |-> <<>>, cost |-> <<0, 1>>]
    /\ b_joint_hist = ZeroHist(1, 1)
    /\ b_rng = 0

-----------------------------------------------------------------------------
(* Calls of clamp *)
Raw == -1..RawMax
RawArrays == UNION {[1..n -> Raw] : n \in 1..MaxLen}
BinChoices == {1, 2, 3, _BINS, ShortMax, ShortMax + 1}
Masks(n) == {NoMask} \cup {BoolMask(sel) : sel \in [1..n -> BOOLEAN]}

\* The arguments of one call, then the call
InitClamp ==
    /\ SpacingIdle
    /\ div_mode = "true"
    /\ SessionIdle
    /\ OptimizeIdle
    /\ \E x \in RawArrays, isint \in BOOLEAN, bins \in BinChoices :
         \E mask \in Masks(Len(x)) :
           clamp_in = [x |-> x, isint |-> isint, bins |-> bins, mask |-> mask]
    /\ clamp_out = NoCall

CallClamp ==
    /\ clamp_out = NoCall
    /\ clamp_out' = clamp(clamp_in.x, clamp_in.isint, clamp_in.bins, clamp_in.mask)
    /\ UNCHANGED <<clamp_in, spVars, sessVars, optVars>>

NextClamp == CallClamp

SpecClamp == InitClamp /\ [][NextClamp]_vars

-----------------------------------------------------------------------------
(* Claims about clamp *)
ClampCalled == clamp_out # NoCall
ValidBins == 1 <= clamp_in.bins /\ clamp_in.bins <= ShortMax
ConstantInput == \A i \in 1..Len(clamp_in.x) : clamp_in.x[i] = clamp_in.x[1]

\* C1: for every input array, every requested bin count in 1..32767, with or
\* without a mask, clamp returns (y, adjusted_bins) with adjusted_bins <= bins,
\* adjusted_bins <= 32767 and every element of y in [-1, adjusted_bins - 1].
C1_ClampReturnsInRange ==
    (ClampCalled /\ ValidBins) =>
        /\ clamp_out.status = "ok"
        /\ clamp_out.bins <= clamp_in.bins
        /\ clamp_out.bins <= ShortMax
        /\ Len(clamp_out.y) = Len(clamp_in.x)
        /\ \A i \in 1..Len(clamp_out.y) :
               -1 <= clamp_out.y[i] /\ clamp_out.y[i] <= clamp_out.bins - 1

\* C2: with a mask, every voxel outside the mask is -1 in the result, and the
\* bins of the voxels under the mask and the returned bin count are those
\* obtained from the min and max of the voxels under the mask only.
C2_MaskedMinMax ==
    (ClampCalled /\ ValidBins /\ clamp_in.mask.given /\ clamp_in.isint
        /\ Select(clamp_in.x, clamp_in.mask.sel) # <<>>) =>
        LET xm == Select(clamp_in.x, clamp_in.mask.sel)
            ref == _clamp(xm, clamp_in.isint, Len(xm), clamp_in.bins)
        IN  /\ clamp_out.status = "ok"
            /\ clamp_out.bins = ref.bins
            /\ clamp_out.y = Scatter([i \in 1..Len(clamp_in.x) |-> -1],
                                     clamp_in.mask.sel, ref.y)

\* C3: clamping a constant-valued unmasked volume with bins = 256 never raises
\* and yields adjusted_bins = 1 and every value 0, for integral and
\* non-integral source values alike.
C3_ConstantVolume ==
    (ClampCalled /\ ~clamp_in.mask.given /\ clamp_in.bins = _BINS /\ ConstantInput) =>
        /\ clamp_out.status = "ok"
        /\ clamp_out.bins = 1
        /\ \A i \in 1..Len(clamp_out.y) : clamp_out.y[i] = 0

\* The same call, one loop iteration at a time
\* lines 403-405
SpEnter ==
    /\ sp_pc = "start"
    /\ actual_npoints' = CountNonNeg(sp_data)
    /\ spacing' = Ones
    /\ sp_pc' = "loop"
    /\ UNCHANGED <<sp_data, sp_npoints, div_mode, sp_prev, sp_dir, sp_iter,
                   clampVars, sessVars, optVars>>

\* lines 407-419: one iteration of the while loop
SpIterate ==
    /\ sp_pc = "loop"
    /\ actual_npoints > sp_npoints
    /\ LET dir == ChooseDir(div_mode, sp_data.shape, spacing)
       IN  /\ spacing[dir] < MaxSpacing
           /\ spacing' = [spacing EXCEPT ![dir] = @ + 1]
           /\ sp_dir' = dir
    /\ actual_npoints' = CountNonNeg(Strided(sp_data, spacing'))
    /\ sp_prev' = spacing
    /\ sp_iter' = sp_iter + 1
    /\ UNCHANGED <<sp_data, sp_npoints, div_mode, sp_pc, clampVars, sessVars, optVars>>

\* lines 407, 421: the while test fails, return spacing
SpReturn ==
    /\ sp_pc = "loop"
    /\ ~(actual_npoints > sp_npoints)
    /\ sp_pc' = "done"
    /\ UNCHANGED <<sp_data, sp_npoints, div_mode, spacing, actual_npoints,
                   sp_prev, sp_dir, sp_iter, clampVars, sessVars, optVars>>

\* The volumes given to ideal_spacing: clamped data, -1 for a masked voxel
Shapes == [1..3 -> 1..MaxDim]
Patterns == {"full", "masked", "origin_masked", "origin_only", "odd_masked"}
PatternVolume(shape, pat) ==
    [shape |-> shape,
     flat  |-> [t \in 1..Size(shape) |->
                  CASE pat = "full" -> (t - 1) % 2
                    [] pat = "masked" -> -1
                    [] pat = "origin_masked" -> IF t = 1 THEN -1 ELSE 0
                    [] pat = "origin_only" -> IF t = 1 THEN 0 ELSE -1
                    [] OTHER -> IF t % 2 = 0 THEN -1 ELSE 0]]

InitSpacing ==
    /\ ClampIdle
    /\ SessionIdle
    /\ OptimizeIdle
    /\ \E shape \in Shapes, pat \in Patterns : sp_data = PatternVolume(shape, pat)
    /\ sp_npoints \in -1..MaxTarget
    /\ div_mode \in DivModes
    /\ sp_pc = "start"
    /\ spacing = Ones
    /\ actual_npoints = 0
    /\ sp_prev = Ones
    /\ sp_dir = 0
    /\ sp_iter = 0

NextSpacing == SpEnter \/ SpIterate \/ SpReturn

SpecSpacing == InitSpacing /\ [][NextSpacing]_vars

-----------------------------------------------------------------------------
(* Claims about ideal_spacing *)

\* the number of samples of data[::s0, ::s1, ::s2] along axis a
StridedExtent(dims, sp, a) == (dims[a] + sp[a] - 1) \div sp[a]

\* the lowest axis whose strided extent is largest
LargestExtentAxis(dims, sp) ==
    CHOOSE a \in 1..3 :
        /\ \A b \in 1..3 : StridedExtent(dims, sp, a) >= StridedExtent(dims, sp, b)
        /\ \A b \in 1..(a - 1) : StridedExtent(dims, sp, b) < StridedExtent(dims, sp, a)

HasNonMasked == CountNonNeg(sp_data) > 0

\* The strided view is the single voxel data[0, 0, 0], which no increment of a
\* stride changes, and the while test still asks for another iteration: every
\* later iteration finds the same count, and the loop never exits.
SpacingLoopsForever ==
    /\ sp_pc = "loop"
    /\ actual_npoints > sp_npoints
    /\ \A a \in 1..3 : spacing[a] >= sp_data.shape[a]

\* C4: ideal_spacing terminates for every volume and every target; for a volume
\* with a non-masked voxel the strided view of the returned spacing holds at
\* most npoints non-sentinel voxels; a fully masked volume gets [1,1,1] with no
\* loop iteration executed.
C4_SpacingTerminates ==
    /\ ~SpacingLoopsForever
    /\ (sp_pc = "done" /\ HasNonMasked) =>
            CountNonNeg(Strided(sp_data, spacing)) <= sp_npoints
    /\ (sp_pc \in {"loop", "done"} /\ ~HasNonMasked) =>
            (sp_iter = 0 /\ spacing = Ones)

\* C7: each iteration increments the stride of the axis whose current strided
\* extent is largest, the lowest such axis on a tie; the loop starts from
\* spacing [1,1,1].  Stated for the targets npoints >= 1, for which the
\* loop terminates (see C4).
C7_LargestExtentFirst ==
    sp_npoints >= 1 =>
        /\ (sp_pc = "loop" /\ sp_iter = 0) => spacing = Ones
        /\ sp_iter > 0 => sp_dir = LargestExtentAxis(sp_data.shape, sp_prev)

-----------------------------------------------------------------------------
(* One HistogramRegistration object and the calls made on it *)

\* interp_methods, line 39
interp_methods == [pv |-> 0, tri |-> 1, rand |-> -1]
_INTERP == "pv"

\* The images a session is built from: integer volumes with identity affines
FromImages == {[shape |-> <<3, 2, 1>>, flat |-> <<5, 7, 7, 5, 6, 5>>]}
ToImages == {[shape |-> <<2, 2, 1>>, flat |-> <<3, 4, 4, 3>>]}

\* __init__(from_img, to_img), lines 69-101: the attributes of the new object
Construct(from_img, to_img, div) ==
    LET from_bins == _BINS
        to_bins == from_bins
        cf == clamp(from_img.flat, TRUE, from_bins, NoMask)
        img == [shape |-> from_img.shape, flat |-> cf.y]
        sub == subsample(img, div, None, <<0, 0, 0>>, None, _NPOINTS)
        ct == clamp(to_img.flat, TRUE, to_bins, NoMask)
    IN  [_from_img |-> img,
         sub |-> sub,
         _to_data |-> Pad([shape |-> to_img.shape, flat |-> ct.y]),
         _joint_hist |-> ZeroHist(cf.bins, ct.bins),
         _interp |-> interp_methods[_INTERP],
         _similarity |-> "cr",
         _similarity_func |-> "None"]

\* The calls that return nothing leave no result behind
NoResult == [value |-> "None"]
Configured == [op |-> "none"]

\* the object built from from_img and to_img
Constructed(from_img, to_img) ==
    LET o == Construct(from_img, to_img, div_mode)
    IN  /\ _from_img = o._from_img
        /\ _from_data = o.sub._from_data
        /\ _from_npoints = o.sub._from_npoints
        /\ _from_affine = o.sub._from_affine
        /\ _vox_coords = o.sub._vox_coords
        /\ _to_data = o._to_data
        /\ _joint_hist = o._joint_hist
        /\ _interp = o._interp
        /\ _similarity = o._similarity
        /\ _similarity_func = o._similarity_func
        /\ last_call = Configured
        /\ ret = NoResult

InitSession ==
    /\ div_mode = "true"
    /\ rng = 0
    /\ \E from_img \in FromImages, to_img \in ToImages :
         Constructed(from_img, to_img)

Init ==
    /\ ClampIdle
    /\ SpacingIdle
    /\ OptimizeIdle
    /\ InitSession

\* The arguments callers give
SubArgs ==
    {[spacing |-> None, corner |-> <<0, 0, 0>>, size |-> None, npoints |-> _NPOINTS],
     [spacing |-> <<2, 1, 1>>, corner |-> <<0, 0, 0>>, size |-> None, npoints |-> _NPOINTS],
     [spacing |-> None, corner |-> <<1, 0, 0>>, size |-> None, npoints |-> 2]}
Params == {<<0>>, <<1>>, <<0, 1>>, <<1, 0>>}
ExploreArgs(n) ==
    IF n = 1 THEN {<<>>, << <<1, <<-1, 0, 1>>>> >>}
    ELSE {<< <<1, <<-1, 0, 1>>>>, <<2, <<0, 1>>>> >>,
          << <<2, <<1>>>> >>,
          << <<1, <<1>>>>, <<1, <<0, 1>>>> >>}

\* subsample(spacing, corner, size, npoints), the arguments drawn from args
SubsampleCall(args) ==
    \E a \in args :
      \E sub \in {subsample(_from_img, div_mode, a.spacing, a.corner, a.size,
                             a.npoints)} :
            /\ _from_data' = sub._from_data
            /\ _from_npoints' = sub._from_npoints
            /\ _from_affine' = sub._from_affine
            /\ _vox_coords' = sub._vox_coords
            /\ last_call' = Configured
            /\ ret' = NoResult
            /\ UNCHANGED <<_from_img, _to_data, _joint_hist, _interp, _similarity,
                           _similarity_func, rng, clampVars, spVars, optVars>>

Subsample == SubsampleCall(SubArgs)

\* interp = method, lines 106-107
SetInterp ==
    \E method \in DOMAIN interp_methods :
        /\ _interp' = interp_methods[method]
        /\ last_call' = Configured
        /\ ret' = NoResult
        /\ UNCHANGED <<_from_img, _from_data, _from_npoints, _from_affine,
                       _vox_coords, _to_data, _joint_hist, _similarity,
                       _similarity_func, rng, clampVars, spVars, optVars>>

\* similarity = 'cr' or a function, lines 146-157
SetSimilarity ==
    \E similarity \in {"cr"} \cup CustomFunctions :
        /\ IF similarity = "cr"
           THEN _similarity' = "cr" /\ _similarity_func' = "None"
           ELSE _similarity' = "custom" /\ _similarity_func' = similarity
        /\ last_call' = Configured
        /\ ret' = NoResult
        /\ UNCHANGED <<_from_img, _from_data, _from_npoints, _from_affine,
                       _vox_coords, _to_data, _joint_hist, _interp, rng,
                       clampVars, spVars, optVars>>

\* eval(T), T of parameters p
Eval ==
    \E p \in Params :
      \E e \in {_eval(_joint_hist, _from_data, _to_data, _vox_coords, _from_affine,
                      _interp, rng, p)} :
            /\ _joint_hist' = e.hist
            /\ rng' = e.rng
            /\ last_call' = [op |-> "eval", T_param |-> p]
            /\ ret' = [value |-> e.score, T_param |-> p]
            /\ UNCHANGED <<_from_img, _from_data, _from_npoints, _from_affine,
                           _vox_coords, _to_data, _interp, _similarity,
                           _similarity_func, clampVars, spVars, optVars>>

\* explore(T0, *args), T0 of parameters p0
Explore ==
    \E p0 \in Params :
      \E args \in ExploreArgs(Len(p0)) :
        \E x \in {explore(_joint_hist, _from_data, _to_data, _vox_coords,
                           _from_affine, _interp, rng, p0, args)} :
            /\ _joint_hist' = x.hist
            /\ rng' = x.rng
            /\ last_call' = [op |-> "explore", T_param |-> p0, args |-> args]
            /\ ret' = [value |-> <<x.simis, x.params>>, T_param |-> x.T_param]
            /\ UNCHANGED <<_from_img, _from_data, _from_npoints, _from_affine,
                           _vox_coords, _to_data, _interp, _similarity,
                           _similarity_func, clampVars, spVars, optVars>>

Next == Subsample \/ SetInterp \/ SetSimilarity \/ Eval \/ Explore

Spec == Init /\ [][Next]_vars

-----------------------------------------------------------------------------
(* Claims about eval and explore *)

EvalReturned == last_call.op = "eval"
ExploreReturned == last_call.op = "explore"

\* C5: once the similarity is a caller-supplied function f, eval(T) returns f
\* applied to the joint histogram built for T
C5_EvalUsesSelectedSimilarity ==
    (EvalReturned /\ _similarity = "custom")
        => ret.value = ApplyFunction(_similarity_func, _joint_hist)

\* the offsets explore was asked to use on axis k (axes from 1): those of the
\* last argument listing k, [0] when none does
OffsetsAsked(args, k) ==
    LET listing == {j \in 1..Len(args) : args[j][1] = k}
    IN  IF listing = {} THEN <<0>>
        ELSE args[CHOOSE j \in listing : \A l \in listing : l <= j][2]

\* the score eval returns now for the parameters p
EvalAt(p) ==
    _eval(_joint_hist, _from_data, _to_data, _vox_coords, _from_affine, _interp,
          rng, p).score

\* C6: explore(T0, (axis_k, offsets_k)...) returns one score and one column
\* per element of the Cartesian product of the offset lists ([0] for an axis
\* not listed), the columns are p0 plus the combinations, the last axis
\* varying fastest, and under a non-random interpolation score i is eval at
\* column i; on a 1-parameter transform, offsets [-1,0,1] give 3 scores, the
\* middle one eval at the baseline
C6_ExploreCartesianProduct ==
    ExploreReturned =>
        LET p0 == last_call.T_param
            n == Len(p0)
            offsets == [k \in 1..n |-> OffsetsAsked(last_call.args, k)]
            choices == {c \in [1..n -> 1..3] :
                            \A k \in 1..n : c[k] <= Len(offsets[k])}
            simis == ret.value[1]
            params == ret.value[2]
            Column(c) == [k \in 1..n |-> p0[k] + offsets[k][c[k]]]
            Before(c, d) == \E k \in 1..n : /\ c[k] < d[k]
                                            /\ \A j \in 1..(k - 1) : c[j] = d[j]
        IN  /\ Len(simis) = Cardinality(choices)
            /\ Len(params) = Cardinality(choices)
            /\ \A c \in choices :
                 LET i == 1 + Cardinality({d \in choices : Before(d, c)})
                 IN  params[i] = Column(c)
            /\ _interp >= 0 =>
                 \A i \in 1..Len(simis) : simis[i] = EvalAt(params[i])
            /\ (n = 1 /\ last_call.args = << <<1, <<-1, 0, 1>>>> >>) =>
                 /\ Len(simis) = 3
                 /\ _interp >= 0 => simis[2] = EvalAt(p0)

\* explore has returned six scores for a 2-parameter transform, on a
\* sub-sampled grid, under a non-random interpolation
C6_Witness ==
    /\ ExploreReturned
    /\ Len(last_call.T_param) = 2
    /\ Len(ret.value[1]) = 6
    /\ _interp >= 0
    /\ _from_affine.step # Ones
    /\ ret.value[1][1] # ret.value[1][2]

\* C10: when explore(T0, ...) returns, the parameters of T0 are the baseline
\* it was called with
C10_ExploreKeepsBaseline ==
    ExploreReturned => ret.T_param = last_call.T_param

-----------------------------------------------------------------------------
(* Sub-sampling alone: sessions on several images, every kind of argument *)

SubImages == {[shape |-> <<3, 2, 1>>, flat |-> <<5, 7, 7, 5, 6, 5>>],
              [shape |-> <<2, 3, 2>>, flat |-> <<1, 2, 3, 4, 5, 6, 6, 5, 4, 3, 2, 1>>],
              [shape |-> <<1, 1, 4>>, flat |-> <<0, 2, 0, 2>>]}
SubSpacings == {None, <<2, 1, 1>>, <<1, 2, 1>>, <<1, 1, 3>>}
SubCorners == {<<0, 0, 0>>, <<1, 0, 0>>, <<0, 1, 1>>}
SubSizes == {None, <<2, 2, 1>>}
SubTargets == {_NPOINTS, 2, 1}
AllSubArgs == [spacing : SubSpacings, corner : SubCorners, size : SubSizes,
               npoints : SubTargets]

InitSubsample ==
    /\ ClampIdle
    /\ SpacingIdle
    /\ OptimizeIdle
    /\ div_mode \in DivModes
    /\ rng = 0
    /\ \E from_img \in SubImages, to_img \in ToImages :
         Constructed(from_img, to_img)

Resample == SubsampleCall(AllSubArgs)

NextSubsample == Resample

SpecSubsample == InitSubsample /\ [][NextSubsample]_vars

\* C9: after construction and after any subsample calls, the coordinate cache
\* has one 3-vector per voxel of the sub-volume, the one at [i,j,k] being
\* (i,j,k), in the flattened order of the sub-volume data; the stored count is
\* the number of sub-volume voxels >= 0; and the sub-volume, its affine and the
\* coordinates are those of one and the same spacing
C9_CachesConsistent ==
    LET shape == _from_data.shape
        Flat(i, j, k) == (i * shape[2] + j) * shape[3] + k + 1
    IN  /\ _vox_coords.shape = shape
        /\ Len(_from_data.flat) = shape[1] * shape[2] * shape[3]
        /\ Len(_vox_coords.flat) = Len(_from_data.flat)
        /\ \A i \in 0..(shape[1] - 1), j \in 0..(shape[2] - 1),
              k \in 0..(shape[3] - 1) :
                /\ _vox_coords.flat[Flat(i, j, k)] = <<i, j, k>>
                /\ _from_data.flat[Flat(i, j, k)] =
                     At(_from_img, [a \in 1..3 |->
                          _from_affine.corner[a] + _from_affine.step[a] * <<i, j, k>>[a]])
        /\ _from_npoints =
             Cardinality({t \in 1..Len(_from_data.flat) : _from_data.flat[t] >= 0})

\* subsample has adjusted the spacing itself (to one no caller gives here),
\* away from the corner of the image, and kept more than one voxel
C9_Witness ==
    /\ _from_affine.step \notin (SubSpacings \cup {Ones})
    /\ _from_affine.corner # <<0, 0, 0>>
    /\ Len(_from_data.flat) > 1

-----------------------------------------------------------------------------
(* optimize(T, method), run twice from the same session and the same T: run  *)
(* a with no callback given (DEBUG is on, so the default callback is         *)
(* installed), run b with a callback that does nothing.  The minimizer is    *)
(* any procedure whose next query depends on the costs it has been given: as *)
(* long as the two runs have been given the same costs it asks both for the  *)
(* same point.  Run a works on _joint_hist and rng, run b on b_joint_hist    *)
(* and b_rng.                                                                *)

\* line 28
DEBUG == TRUE

\* the methods of lines 252-273, and one that is none of them
Methods == {"powell", "steepest", "cg", "bfgs", "simplex"}
MethodArgs == Methods \cup {"newton"}

\* -self._eval(Tv), line 238
Neg(score) == <<-score[1], score[2]>>
Less(c, d) == c[1] * d[2] < d[1] * c[2]

\* what the minimizer holds after being given cost at tc
Better(best, n, tc, cost) ==
    IF n = 0 \/ Less(cost, best.cost) THEN [param |-> tc, cost |-> cost]
    ELSE best

InitOptimize ==
    /\ ClampIdle
    /\ SpacingIdle
    /\ div_mode = "true"
    /\ rng \in 0..(RngPeriod - 1)
    /\ \E from_img \in FromImages, to_img \in ToImages :
         Constructed(from_img, to_img)
    /\ b_rng = rng
    /\ b_joint_hist = _joint_hist
    /\ opt_pc = "idle"
    /\ opt_method = "powell"
    /\ opt_n = 0
    /\ opt_tc = <<>>
    /\ a_param \in Params
    /\ b_param = a_param
    /\ a_cost = <<0, 1>>
    /\ b_cost = <<0, 1>>
    /\ a_best = [param |-> a_param, cost |-> <<0, 1>>]
    /\ b_best = a_best

\* the session is given its interpolation method before optimize is called
OptSetInterp ==
    /\ opt_pc = "idle"
    /\ \E method \in DOMAIN interp_methods :
         _interp' = interp_methods[method]
    /\ UNCHANGED <<_from_img, _from_data, _from_npoints, _from_affine,
                   _vox_coords, _to_data, _joint_hist, _similarity,
                   _similarity_func, rng, last_call, ret, clampVars, spVars,
                   optVars>>

\* optimize(T, method) up to the choice of the minimizer, lines 231-276:
\* tc0 = Tv.param, and ValueError for a method that is none of the five
OptCall ==
    /\ opt_pc = "idle"
    /\ \E method \in MethodArgs :
         /\ opt_method' = method
         /\ opt_pc' = IF method \in Methods THEN "minimizing" ELSE "ValueError"
    /\ opt_tc' = a_param
    /\ UNCHANGED <<opt_n, a_param, b_param, a_cost, b_cost, a_best, b_best,
                   b_joint_hist, b_rng, sessVars, clampVars, spVars>>

\* the minimizer asks for cost(tc), lines 235-238, in both runs
OptCost ==
    /\ opt_pc \in {"minimizing", "iterated"}
    /\ opt_n < MaxQueries
    /\ a_cost = b_cost
    /\ \E tc \in {p \in Params : Len(p) = Len(a_param)} :
        \E ea \in {_eval(_joint_hist, _from_data, _to_data, _vox_coords,
                         _from_affine, _interp, rng, tc)},
           eb \in {_eval(b_joint_hist, _from_data, _to_data, _vox_coords,
                         _from_affine, _interp, b_rng, tc)} :
            /\ opt_tc' = tc
            /\ _joint_hist' = ea.hist
            /\ rng' = ea.rng
            /\ a_cost' = Neg(ea.score)
            /\ a_best' = Better(a_best, opt_n, tc, Neg(ea.score))
            /\ b_joint_hist' = eb.hist
            /\ b_rng' = eb.rng
            /\ b_cost' = Neg(eb.score)
            /\ b_best' = Better(b_best, opt_n, tc, Neg(eb.score))
    /\ opt_n' = opt_n + 1
    /\ opt_pc' = "iterated"
    /\ UNCHANGED <<opt_method, a_param, b_param, _from_img, _from_data,
                   _from_npoints, _from_affine, _vox_coords, _to_data, _interp,
                   _similarity, _similarity_func, last_call, ret, clampVars,
                   spVars>>

\* the minimizer ends an iteration and calls callback(tc) with its current
\* point: run a evaluates the similarity there to print it, lines 241-246,
\* run b does nothing
OptCallback ==
    /\ opt_pc = "iterated"
    /\ DEBUG
    /\ \E ea \in {_eval(_joint_hist, _from_data, _to_data, _vox_coords,
                        _from_affine, _interp, rng, a_best.param)} :
         /\ _joint_hist' = ea.hist
         /\ rng' = ea.rng
    /\ opt_pc' = "minimizing"
    /\ UNCHANGED <<opt_method, opt_n, opt_tc, a_param, b_param, a_cost, b_cost,
                   a_best, b_best, b_joint_hist, b_rng, _from_img, _from_data,
                   _from_npoints, _from_affine, _vox_coords, _to_data, _interp,
                   _similarity, _similarity_func, last_call, ret, clampVars,
                   spVars>>

\* the minimizer returns the best point it was given a cost for, and
\* Tv.param = fmin(...) writes it to T, line 281
OptReturn ==
    /\ opt_pc \in {"minimizing", "iterated"}
    /\ opt_n > 0
    /\ a_param' = a_best.param
    /\ b_param' = b_best.param
    /\ opt_pc' = "returned"
    /\ UNCHANGED <<opt_method, opt_n, opt_tc, a_cost, b_cost, a_best, b_best,
                   b_joint_hist, b_rng, sessVars, clampVars, spVars>>

NextOptimize == OptSetInterp \/ OptCall \/ OptCost \/ OptCallback \/ OptReturn

SpecOptimize == InitOptimize /\ [][NextOptimize]_vars

\* C8: the default callback never influences the trajectory: the costs given
\* to the minimizer, and the parameters written back to the transform, are
\* those of the run whose callback does nothing
C8_CallbackObservational ==
    /\ a_cost = b_cost
    /\ opt_pc = "returned" => a_param = b_param

====
